---- MODULE Spec2Model ----
(***************************************************************************)
(* Block production scheduler, atomic transaction queue, tx-pool           *)
(* stabilization and fund selection of the EVM virtual machine (package    *)
(* evm, type VM).  Times are in milliseconds.                              *)
(***************************************************************************)
EXTENDS Integers, Sequences, FiniteSets, TLC

\* ---- program constants ------------------------------------------------
minBlockTime == 250
maxBlockTime == 1000
batchSize == 250
pendingAtomicTxsCap == 1024
txPoolStabilizedOkCap == 1
atomicTxSubmitChanCap == 1
bdTimerStateMin == 0
bdTimerStateMax == 1
bdTimerStateLong == 2
codecVersion == 0

\* ---- bounds of the model ----------------------------------------------
\* the clock advances in steps of TickMs
TickMs == 250
\* capacity of the consensus engine's notification channel (toEngine)
NetworkChanCap == 1
\* atomic transactions submitted in one behaviour
MaxAtomicTx == 2
\* build attempts in one behaviour
MaxBuilds == 2
\* length of the key list handed to the fund selector
MaxKeys == 3
\* build attempts and atomic transactions in one behaviour of the scheduler
\* specification
MaxSchedBuilds == 1
MaxSchedAtomicTx == 1
\* funds the state handed to a state transfer can hold for it
MaxEvmFunds == 1

VARIABLES
    bdTimerState,          \* vm.bdTimerState
    bdGenWaitFlag,         \* vm.bdGenWaitFlag
    bdGenFlag,             \* vm.bdGenFlag
    timerArmed,            \* vm.blockDelayTimer has a timeout set
    timerLeft,             \* ms until that timeout
    cbpc,                  \* the timer callback: "idle", "dispatched", "retry"
    networkChan,           \* notifications waiting in vm.networkChan
    sinceNotify,           \* ms since the last notification (-1: none yet)
    txSubmitChan,          \* signals waiting in vm.txSubmitChan
    atomicTxSubmitChan,    \* signals waiting in vm.atomicTxSubmitChan
    poolSize,              \* ordinary transactions pending in the pool
    pendingAtomicTxs,      \* vm.pendingAtomicTxs, a FIFO of transaction ids
    nextTx,                \* id of the next submitted atomic transaction
    issueErr,              \* result of the last issueTx
    issuepc,               \* issueTx: "idle", "wake" (queued, before line 702)
    bbpc,                  \* buildBlock: "idle", "recv", "reset", "wait"
    bbBlock,               \* hash of the block buildBlock received (0: none)
    bbErr,                 \* result of the last buildBlock
    releasedBy,            \* the stabilized signal the last buildBlock consumed
    minerpc,               \* the build attempt: "idle", "finalize", "seal", "sendNil", "sendBlk", "record"
    newBlockChan,          \* value offered on the unbuffered vm.newBlockChan (0: nil)
    nbSent,                \* values published on vm.newBlockChan by the current attempt
    curBlock,              \* the block of the current build attempt
    nextHash,              \* hash of the block of the next build attempt
    txPoolStabilizedHead,  \* vm.txPoolStabilizedHead (0: common.Hash{})
    txPoolStabilizedOk,    \* vm.txPoolStabilizedOk, tagged with the event posting it
    curDelivered,          \* an event for curBlock was handled by the listener
    fkeys, fbalance, famount, ffail, fresult,  \* fund selector: inputs and result
    consumed,              \* atomic transactions received from vm.pendingAtomicTxs so far
    shutpc,                \* Shutdown: "none", "closeSubmit", "stop", "wait", "done"
    txPoolStabilizedShutdownChan,  \* "open" or "closed"
    shutdownSubmitChan,    \* "open" or "closed"
    minedFeed,             \* vm.newMinedBlockSub.Chan(): "open" or "closed"
    stabpc,                \* awaitTxPoolStabilized: "select", "nil", "lock", "send", "exit"
    stabEvent,             \* hash of the event the listener received at line 626 (0: none)
    subpc,                 \* awaitSubmittedTxs: "select", "exit"
    replay,                \* the last OnExtraStateChange call: block, transfers applied, result
    bdlock,                \* holder of vm.bdlock ("free": none)
    genlock,               \* holder of vm.genlock ("free": none)
    lockpc,                \* position of each thread that takes vm.bdlock
    trySize                \* tryBlockGen's local size, as vm.chain.PendingSize() returned it

schedVars == <<bdTimerState, bdGenWaitFlag, bdGenFlag, networkChan, sinceNotify>>
timerVars == <<timerArmed, timerLeft, cbpc>>
subVars   == <<txSubmitChan, atomicTxSubmitChan>>
queueVars == <<pendingAtomicTxs, nextTx, issueErr, issuepc>>
buildVars == <<bbpc, bbBlock, bbErr, releasedBy>>
minerVars == <<minerpc, newBlockChan, nbSent, curBlock, nextHash>>
stabVars  == <<txPoolStabilizedHead, txPoolStabilizedOk, curDelivered, stabEvent>>
fundVars  == <<fkeys, fbalance, famount, ffail, fresult>>
shutVars  == <<shutpc, txPoolStabilizedShutdownChan, shutdownSubmitChan, minedFeed,
               stabpc, subpc>>
lockVars  == <<bdlock, genlock, lockpc, trySize>>
vars == <<schedVars, timerVars, subVars, poolSize, queueVars, buildVars,
          minerVars, stabVars, fundVars, shutVars, consumed, replay, lockVars>>

Min(a, b) == IF a < b THEN a ELSE b

maxDuration(x, y) == IF x > y THEN x ELSE y

NoBlock == [hash |-> 0, extra |-> <<>>, extdata |-> <<>>, ntx |-> 0, parent |-> 0]
NoSignal == [event |-> 0, head |-> 0]
NoReplay == [hash |-> 0, extdata |-> <<>>, funds |-> 0, applied |-> <<>>, err |-> "none"]
\* the threads that take vm.bdlock: the submission listener, the timer's
\* dispatcher and the engine's buildBlock call
LockThreads == {"listener", "timer", "builder"}
PoolSizes == {0, 1, batchSize}

\* ---- Initialize -------------------------------------------------------
InitVM ==
    /\ bdTimerState = bdTimerStateLong
    /\ bdGenWaitFlag = TRUE
    /\ bdGenFlag = FALSE
    /\ timerArmed = FALSE
    /\ timerLeft = 0
    /\ cbpc = "idle"
    /\ networkChan = 0
    /\ sinceNotify = -1
    /\ txSubmitChan = 0
    /\ atomicTxSubmitChan = 0
    /\ poolSize = 0
    /\ nextTx = 1
    /\ issueErr = "none"
    /\ issuepc = "idle"
    /\ bbpc = "idle"
    /\ bbBlock = 0
    /\ bbErr = "none"
    /\ releasedBy = NoSignal
    /\ minerpc = "idle"
    /\ newBlockChan = <<>>
    /\ nbSent = 0
    /\ curBlock = NoBlock
    /\ nextHash = 1
    /\ txPoolStabilizedHead = 0
    /\ txPoolStabilizedOk = <<>>
    /\ curDelivered = FALSE
    /\ consumed = <<>>
    /\ shutpc = "none"
    /\ txPoolStabilizedShutdownChan = "open"
    /\ shutdownSubmitChan = "open"
    /\ minedFeed = "open"
    /\ stabpc = "select"
    /\ stabEvent = 0
    /\ subpc = "select"
    /\ replay = NoReplay
    /\ bdlock = "free"
    /\ genlock = "free"
    /\ lockpc = [t \in LockThreads |-> "idle"]
    /\ trySize = 0

InitFundsIdle ==
    /\ fkeys = <<>>
    /\ fbalance = <<>>
    /\ famount = 0
    /\ ffail = "none"
    /\ fresult = [status |-> "none", inputs |-> <<>>, signers |-> <<>>]

Init ==
    /\ InitVM
    /\ pendingAtomicTxs = <<>>
    /\ InitFundsIdle

\* ---- tryBlockGen ------------------------------------------------------
\* mutant: every state lets the attempt go on
ShouldProposeAlways(state, size) == TRUE

\* the switch on vm.bdTimerState: TRUE when the attempt goes on to notify
ShouldPropose(state, size) ==
    CASE state = bdTimerStateMin -> FALSE
      [] state = bdTimerStateMax -> size >= batchSize
      [] OTHER -> TRUE

HasPendingWork(size, q) == ~(size = 0 /\ Len(q) = 0)

\* mutant: a proposal already sent in this round goes unnoticed
ProposalNeverInFlight(genFlag) == FALSE

\* if vm.bdGenFlag
ProposalInFlight(genFlag) == genFlag

\* mutant: a full notification channel takes one more message
ChanNeverFull(chan) == FALSE

\* the default case of the send on vm.networkChan is taken
ChanFull(chan) == chan >= NetworkChanCap

\* The call itself is taken apart below (vm.bdlock and vm.genlock): its reads
\* of the pending size, of the queue and of vm.networkChan happen at three
\* moments, and what they read is written by threads that take neither lock.

\* A thread that takes vm.bdlock is at "idle" outside the locked sections;
\* in tryBlockGen at "try.lock" (waiting for bdlock), "try.flag",
\* "try.genlock" (waiting for genlock), "try.size", "try.queue", "try.send",
\* "try.errFreq" (return errBlockFrequency, the deferred unlocks to come),
\* "try.unlockGen", "try.unlockBd"; the timer callback at "cb.body" and
\* "cb.unlock"; buildBlock's reset at "reset.body" and "reset.unlock".
SetLockPc(t, pc) == lockpc' = [lockpc EXCEPT ![t] = pc]

\* ---- awaitSubmittedTxs ------------------------------------------------
\* The select takes a case; the call of tryBlockGen follows, starting with
\* the wait for vm.bdlock.
SubmittedTx ==
    /\ subpc = "select"
    /\ lockpc["listener"] = "idle"
    /\ txSubmitChan > 0
    /\ txSubmitChan' = txSubmitChan - 1
    /\ SetLockPc("listener", "try.lock")
    /\ UNCHANGED <<atomicTxSubmitChan, schedVars, timerVars, poolSize, queueVars,
                   buildVars, minerVars, stabVars, fundVars, shutVars, consumed, replay,
                   bdlock, genlock, trySize>>

SubmittedAtomicTx ==
    /\ subpc = "select"
    /\ lockpc["listener"] = "idle"
    /\ atomicTxSubmitChan > 0
    /\ atomicTxSubmitChan' = atomicTxSubmitChan - 1
    /\ SetLockPc("listener", "try.lock")
    /\ UNCHANGED <<txSubmitChan, schedVars, timerVars, poolSize, queueVars,
                   buildVars, minerVars, stabVars, fundVars, shutVars, consumed, replay,
                   bdlock, genlock, trySize>>

\* case <-time.After(5 * time.Second)
IdleTimeout ==
    /\ subpc = "select"
    /\ lockpc["listener"] = "idle"
    /\ SetLockPc("listener", "try.lock")
    /\ UNCHANGED <<txSubmitChan, atomicTxSubmitChan, schedVars, timerVars, poolSize,
                   queueVars, buildVars, minerVars, stabVars, fundVars, shutVars,
                   consumed, replay, bdlock, genlock, trySize>>

\* ---- blockDelayTimer --------------------------------------------------
Tick ==
    /\ timerLeft' = IF timerArmed THEN maxDuration(timerLeft - TickMs, 0) ELSE timerLeft
    /\ sinceNotify' = IF sinceNotify < 0 THEN sinceNotify
                      ELSE Min(sinceNotify + TickMs, minBlockTime)
    /\ UNCHANGED <<timerArmed, cbpc, bdTimerState, bdGenWaitFlag, bdGenFlag, networkChan,
                   subVars, poolSize, queueVars, buildVars, minerVars, stabVars, fundVars,
                   shutVars, consumed, replay, lockVars>>

\* the timeout elapses and the dispatcher calls the handler
TimerFire ==
    /\ timerArmed
    /\ timerLeft = 0
    /\ cbpc = "idle"
    /\ lockpc["timer"] = "idle"
    /\ timerArmed' = FALSE
    /\ cbpc' = "dispatched"
    /\ UNCHANGED <<timerLeft, schedVars, subVars, poolSize, queueVars, buildVars,
                   minerVars, stabVars, fundVars, shutVars, consumed, replay, lockVars>>

\* mutant: the handler moves Min to Max and sets no new timeout
TimerCallbackBodyNoRearm ==
    /\ cbpc = "dispatched"
    /\ CASE bdTimerState = bdTimerStateMin ->
              /\ bdTimerState' = bdTimerStateMax
              /\ UNCHANGED <<timerArmed, timerLeft>>
         [] bdTimerState = bdTimerStateMax ->
              /\ bdTimerState' = bdTimerStateLong
              /\ UNCHANGED <<timerArmed, timerLeft>>
         [] OTHER -> UNCHANGED <<bdTimerState, timerArmed, timerLeft>>
    /\ cbpc' = IF bdGenWaitFlag THEN "retry" ELSE "idle"
    /\ UNCHANGED <<bdGenWaitFlag, bdGenFlag, networkChan, sinceNotify>>

\* the handler's section under bdlock: the switch and tryAgain
TimerCallbackBody ==
    /\ cbpc = "dispatched"
    /\ CASE bdTimerState = bdTimerStateMin ->
              /\ bdTimerState' = bdTimerStateMax
              /\ timerArmed' = TRUE
              /\ timerLeft' = maxDuration(maxBlockTime - minBlockTime, 0)
         [] bdTimerState = bdTimerStateMax ->
              /\ bdTimerState' = bdTimerStateLong
              /\ UNCHANGED <<timerArmed, timerLeft>>
         [] OTHER -> UNCHANGED <<bdTimerState, timerArmed, timerLeft>>
    /\ cbpc' = IF bdGenWaitFlag THEN "retry" ELSE "idle"
    /\ UNCHANGED <<bdGenWaitFlag, bdGenFlag, networkChan, sinceNotify>>

\* ---- the consensus engine and the transaction pool --------------------
EngineRecv ==
    /\ networkChan > 0
    /\ networkChan' = networkChan - 1
    /\ UNCHANGED <<bdTimerState, bdGenWaitFlag, bdGenFlag, sinceNotify, timerVars,
                   subVars, poolSize, queueVars, buildVars, minerVars, stabVars, fundVars,
                   shutVars, consumed, replay, lockVars>>

\* the pool gains transactions (and signals the submit channel) or loses some
PoolChange ==
    /\ \E n \in PoolSizes :
         /\ n # poolSize
         /\ poolSize' = n
         /\ txSubmitChan' = IF n > poolSize THEN 1 ELSE txSubmitChan
    /\ UNCHANGED <<atomicTxSubmitChan, schedVars, timerVars, queueVars, buildVars,
                   minerVars, stabVars, fundVars, shutVars, consumed, replay, lockVars>>

\* ---- issueTx ----------------------------------------------------------
\* mutant: the capacity check is off by one
QueueHasRoomOffByOne(q) == Len(q) <= pendingAtomicTxsCap

QueueHasRoom(q) == Len(q) < pendingAtomicTxsCap

\* mutant: no wake signal is posted
WakeSignalDropped(ch) == ch

\* the non-blocking send on vm.atomicTxSubmitChan: a full slot stays as it is
WakeSignal(ch) == Min(ch + 1, atomicTxSubmitChanCap)

\* the outer select (lines 700-701, 707-708): the send on vm.pendingAtomicTxs
\* or, the queue full, the return of errTooManyAtomicTx
issueTx ==
    /\ issuepc = "idle"
    /\ nextTx <= MaxAtomicTx
    /\ IF QueueHasRoom(pendingAtomicTxs)
       THEN /\ pendingAtomicTxs' = Append(pendingAtomicTxs, nextTx)
            /\ issuepc' = "wake"
            /\ issueErr' = "none"
       ELSE /\ issueErr' = "errTooManyAtomicTx"
            /\ UNCHANGED <<pendingAtomicTxs, issuepc>>
    /\ nextTx' = nextTx + 1
    /\ UNCHANGED <<subVars, schedVars, timerVars, poolSize, buildVars,
                   minerVars, stabVars, fundVars, shutVars, consumed, replay, lockVars>>

\* the inner select (lines 702-705) and the return of nil (line 710)
issueTxWake ==
    /\ issuepc = "wake"
    /\ atomicTxSubmitChan' = WakeSignal(atomicTxSubmitChan)
    /\ issueErr' = "nil"
    /\ issuepc' = "idle"
    /\ UNCHANGED <<txSubmitChan, pendingAtomicTxs, nextTx, schedVars, timerVars, poolSize,
                   buildVars, minerVars, stabVars, fundVars, shutVars, consumed, replay,
                   lockVars>>

\* ---- buildBlock and the assembly callbacks -----------------------------
\* vm.chain.GenBlock(): the engine starts one build attempt
GenBlock ==
    /\ bbpc = "idle"
    /\ minerpc = "idle"
    /\ nextHash <= MaxBuilds
    /\ nextHash' = nextHash + 1
    /\ bbpc' = "recv"
    /\ bbBlock' = 0
    /\ bbErr' = "none"
    /\ releasedBy' = NoSignal
    /\ minerpc' = "finalize"
    /\ nbSent' = 0
    /\ curBlock' = NoBlock
    /\ curDelivered' = FALSE
    /\ UNCHANGED <<newBlockChan, txPoolStabilizedHead, txPoolStabilizedOk, stabEvent>>

\* the engine calls buildBlock
BuildBlockCall ==
    /\ GenBlock
    /\ UNCHANGED <<schedVars, timerVars, subVars, poolSize, queueVars, fundVars,
                   shutVars, consumed, replay, lockVars>>

\* the engine takes a notification and answers it with a buildBlock call
EngineProposes ==
    /\ networkChan > 0
    /\ networkChan' = networkChan - 1
    /\ nextHash <= MaxSchedBuilds
    /\ GenBlock
    /\ UNCHANGED <<bdTimerState, bdGenWaitFlag, bdGenFlag, sinceNotify, timerVars,
                   subVars, poolSize, queueVars, fundVars, shutVars, consumed, replay, lockVars>>

\* mutant: the receive drains the whole queue
DequeueAllAtomicTxs(q) == [atxs |-> q, rest |-> <<>>]

\* mutant: the received transaction stays in the queue
PeekAtomicTx(q) ==
    IF Len(q) > 0 THEN [atxs |-> <<Head(q)>>, rest |-> q]
    ELSE [atxs |-> <<>>, rest |-> q]

\* the non-blocking receive from vm.pendingAtomicTxs
DequeueAtomicTx(q) ==
    IF Len(q) > 0 THEN [atxs |-> <<Head(q)>>, rest |-> Tail(q)]
    ELSE [atxs |-> <<>>, rest |-> q]

\* mutant: a transaction whose transfer failed goes back to the queue
QueueWithFailedTxBack(rest, atxs) == rest \o atxs

\* the queue after a failed transfer: the received transaction is dropped
QueueAfterFailedTransfer(rest, atxs) == rest

\* vm.codec.Marshal(codecVersion, atx) returning without error: the version,
\* then the transaction
Marshal(version, atx) == <<version, atx>>

\* what Marshal hands back with an error: no bytes, or the bytes packed before
\* the error
MarshalErrBytes == {<<>>, <<codecVersion>>}

\* raw of line 386, the error of Marshal thrown away; nil without a transaction
\* (line 396)
MarshalOutcomes(atxs) ==
    IF atxs = <<>> THEN {<<>>}
    ELSE {Marshal(codecVersion, Head(atxs))} \cup MarshalErrBytes

\* the states a callback can be handed, by the funds they hold for a transfer
EvmStates == 0..MaxEvmFunds

\* atx.UnsignedTx.(UnsignedAtomicTx).EVMStateTransfer(vm, state) returns nil:
\* the state holds the funds the transaction moves
EVMStateTransfer(atx, funds) == funds > 0

\* mutant: an empty block is let through
EmptyBlockAccepted(ntx) == FALSE

EmptyBlockRejected(ntx) == ntx = 0

OnFinalizeAndAssemble ==
    /\ minerpc = "finalize"
    /\ \E ntx \in {0, poolSize}, funds \in EvmStates :
         LET d == DequeueAtomicTx(pendingAtomicTxs)
             fails == IF Len(d.atxs) > 0
                      THEN ~EVMStateTransfer(Head(d.atxs), funds)
                      ELSE EmptyBlockRejected(ntx)
         IN /\ pendingAtomicTxs' = IF fails THEN QueueAfterFailedTransfer(d.rest, d.atxs)
                                    ELSE d.rest
            /\ consumed' = consumed \o d.atxs
            /\ IF fails
               THEN /\ newBlockChan' = <<0>>
                    /\ nbSent' = nbSent + 1
                    /\ minerpc' = "sendNil"
                    /\ UNCHANGED curBlock
               ELSE /\ \E raw \in MarshalOutcomes(d.atxs) :
                         curBlock' = [hash |-> nextHash - 1, extra |-> d.atxs,
                                      extdata |-> raw, ntx |-> ntx,
                                      parent |-> IF Len(d.atxs) > 0 THEN funds ELSE 0]
                    /\ minerpc' = "seal"
                    /\ UNCHANGED <<newBlockChan, nbSent>>
    /\ UNCHANGED <<nextHash, nextTx, issueErr, issuepc, schedVars, timerVars, subVars, poolSize, buildVars,
                   stabVars, fundVars, shutVars, replay, lockVars>>

\* OnSealFinish up to the send on vm.newBlockChan
OnSealFinish ==
    /\ minerpc = "seal"
    /\ \E verifyOk \in BOOLEAN :
         IF verifyOk
         THEN /\ newBlockChan' = <<curBlock.hash>>
              /\ minerpc' = "sendBlk"
         ELSE /\ newBlockChan' = <<0>>
              /\ minerpc' = "sendNil"
    /\ nbSent' = nbSent + 1
    /\ UNCHANGED <<curBlock, nextHash, schedVars, timerVars, subVars, poolSize, queueVars,
                   buildVars, stabVars, fundVars, shutVars, consumed, replay, lockVars>>

\* OnSealFinish after the send: record the expected stabilized head
OnSealFinishRecord ==
    /\ minerpc = "record"
    /\ stabpc # "send"
    /\ txPoolStabilizedHead' = curBlock.hash
    /\ minerpc' = "idle"
    /\ UNCHANGED <<newBlockChan, nbSent, curBlock, nextHash, txPoolStabilizedOk,
                   curDelivered, stabEvent, schedVars, timerVars, subVars, poolSize, queueVars,
                   buildVars, fundVars, shutVars, consumed, replay, lockVars>>

\* block := <-vm.newBlockChan, and the return on a nil marker
BuildBlockRecv ==
    /\ bbpc = "recv"
    /\ newBlockChan # <<>>
    /\ newBlockChan' = <<>>
    /\ IF Head(newBlockChan) = 0
       THEN /\ bbErr' = "errCreateBlock"
            /\ bbpc' = "idle"
            /\ minerpc' = "idle"
            /\ UNCHANGED bbBlock
       ELSE /\ bbBlock' = Head(newBlockChan)
            /\ bbpc' = "reset"
            /\ minerpc' = "record"
            /\ UNCHANGED bbErr
    /\ UNCHANGED <<releasedBy, nbSent, curBlock, nextHash, schedVars, timerVars, subVars,
                   poolSize, queueVars, stabVars, fundVars, shutVars, consumed, replay, lockVars>>

\* the reset of the block delay timer under bdlock
BuildBlockResetBody ==
    /\ bbpc = "reset"
    /\ bdTimerState' = bdTimerStateMin
    /\ bdGenWaitFlag' = FALSE
    /\ bdGenFlag' = FALSE
    /\ timerArmed' = TRUE
    /\ timerLeft' = minBlockTime
    /\ bbpc' = "wait"
    /\ UNCHANGED <<cbpc, networkChan, sinceNotify, bbBlock, bbErr, releasedBy>>

BuildBlockReset ==
    /\ BuildBlockResetBody
    /\ UNCHANGED <<subVars, poolSize, queueVars, minerVars, stabVars, fundVars, shutVars,
                   consumed, replay, lockVars>>

\* <-vm.txPoolStabilizedOk and the successful return
BuildBlockWait ==
    /\ bbpc = "wait"
    /\ lockpc["builder"] = "idle"
    /\ txPoolStabilizedOk # <<>>
    /\ releasedBy' = Head(txPoolStabilizedOk)
    /\ txPoolStabilizedOk' = Tail(txPoolStabilizedOk)
    /\ bbErr' = "nil"
    /\ bbpc' = "idle"
    /\ UNCHANGED <<bbBlock, txPoolStabilizedHead, curDelivered, stabEvent, schedVars,
                   timerVars, subVars, poolSize, queueVars, minerVars, fundVars, shutVars, consumed, replay, lockVars>>

\* ---- OnExtraStateChange -------------------------------------------------
\* vm.codec.Unmarshal(extdata, atx): fails on bytes that are not a version
\* registered with the codec followed by one transaction
Unmarshal(bytes) ==
    IF Len(bytes) = 2 /\ bytes[1] = codecVersion /\ bytes[2] \in 1..MaxAtomicTx
    THEN [ok |-> TRUE, atx |-> bytes[2]]
    ELSE [ok |-> FALSE, atx |-> 0]

\* the transactions extractAtomicTx finds in extra-data (none: nil)
extractAtomicTx(extdata) ==
    LET u == Unmarshal(extdata) IN IF u.ok THEN <<u.atx>> ELSE <<>>

\* extra-data of blocks received from other nodes: none, a transaction,
\* a version the codec does not know, truncated bytes
RemoteExtData ==
    {<<>>, <<codecVersion + 1, 1>>, <<codecVersion>>}
        \cup {Marshal(codecVersion, t) : t \in 1..MaxAtomicTx}

\* the local block once assembled, and blocks of other nodes (hash -1)
ReplayBlocks ==
    (IF minerpc \in {"seal", "sendBlk", "record"} \/ curBlock # NoBlock
     THEN {[hash |-> curBlock.hash, extdata |-> curBlock.extdata]} ELSE {})
        \cup {[hash |-> -1, extdata |-> e] : e \in RemoteExtData}

\* The engine processes a block and calls the extra-state-change callback
\* with a state of its choice: nil without a transaction, else what
\* EVMStateTransfer returns on that state.
OnExtraStateChange ==
    /\ \E blk \in ReplayBlocks, funds \in EvmStates :
         LET txs == extractAtomicTx(blk.extdata)
             transferOk == txs = <<>> \/ EVMStateTransfer(Head(txs), funds)
         IN replay' = [hash |-> blk.hash, extdata |-> blk.extdata, funds |-> funds,
                       applied |-> IF transferOk THEN txs ELSE <<>>,
                       err |-> IF transferOk THEN "nil" ELSE "transferErr"]
    /\ UNCHANGED <<schedVars, timerVars, subVars, poolSize, queueVars, buildVars,
                   minerVars, stabVars, fundVars, shutVars, consumed, lockVars>>

\* ---- awaitTxPoolStabilized ---------------------------------------------
\* mutant: any event is taken for the expected head's
StabilizedMatchAny(head, h) == head # 0

StabilizedMatch(head, h) == head = h

\* mutant: the expected head survives the post
HeadKeptAfterPost(head) == head

\* vm.txPoolStabilizedHead = common.Hash{}
HeadAfterPost(head) == 0

\* hashes the engine can report as mined: those of the attempts so far, the
\* current one once its block is assembled
MinedHashes == {h \in 1..(nextHash - 1) : h = curBlock.hash \/ h < nextHash - 1 \/ bbpc = "idle"}

\* case e, ok := <-vm.newMinedBlockSub.Chan() with a NewMinedBlockEvent for
\* block h (lines 626-635): the listener holds the event and goes on to
\* vm.txPoolStabilizedLock.Lock().
awaitTxPoolStabilized ==
    /\ stabpc = "select"
    /\ minedFeed = "open"
    /\ \E h \in MinedHashes :
         /\ stabEvent' = h
         /\ curDelivered' = (curDelivered \/ (h = bbBlock /\ bbpc \in {"reset", "wait"}))
    /\ stabpc' = "lock"
    /\ UNCHANGED <<txPoolStabilizedHead, txPoolStabilizedOk, schedVars, timerVars, subVars,
                   poolSize, queueVars, buildVars, minerVars, fundVars, shutpc,
                   txPoolStabilizedShutdownChan, shutdownSubmitChan, minedFeed, subpc,
                   consumed, replay, lockVars>>

\* The first mined-block event for the block buildBlock holds: the chain posts
\* the event of a block it mined; it does not post it again.
MinedEventDue ==
    /\ ~curDelivered
    /\ awaitTxPoolStabilized
    /\ curDelivered'

\* The section under vm.txPoolStabilizedLock (lines 636-641): the comparison
\* with the expected head, the send and the reset of the head.  With the slot
\* of vm.txPoolStabilizedOk taken the send blocks, the lock held
\* (stabpc = "send"), and completes when the slot is free.
awaitTxPoolStabilizedLocked ==
    /\ IF stabpc = "send"
       THEN /\ Len(txPoolStabilizedOk) < txPoolStabilizedOkCap
            /\ txPoolStabilizedOk' =
                  Append(txPoolStabilizedOk,
                         [event |-> stabEvent, head |-> txPoolStabilizedHead])
            /\ txPoolStabilizedHead' = HeadAfterPost(txPoolStabilizedHead)
            /\ stabpc' = "select"
            /\ stabEvent' = 0
       ELSE /\ stabpc = "lock"
            /\ IF StabilizedMatch(txPoolStabilizedHead, stabEvent)
               THEN IF Len(txPoolStabilizedOk) < txPoolStabilizedOkCap
                    THEN /\ txPoolStabilizedOk' =
                               Append(txPoolStabilizedOk,
                                      [event |-> stabEvent, head |-> txPoolStabilizedHead])
                         /\ txPoolStabilizedHead' = HeadAfterPost(txPoolStabilizedHead)
                         /\ stabpc' = "select"
                         /\ stabEvent' = 0
                    ELSE /\ stabpc' = "send"
                         /\ UNCHANGED <<txPoolStabilizedHead, txPoolStabilizedOk, stabEvent>>
               ELSE /\ stabpc' = "select"
                    /\ stabEvent' = 0
                    /\ UNCHANGED <<txPoolStabilizedHead, txPoolStabilizedOk>>
    /\ UNCHANGED <<curDelivered, schedVars, timerVars, subVars, poolSize, queueVars,
                   buildVars, minerVars, fundVars, shutpc, txPoolStabilizedShutdownChan,
                   shutdownSubmitChan, minedFeed, subpc, consumed, replay, lockVars>>

\* the receive from the closed feed yields a nil event: log and continue
StabilizedFeedClosed ==
    /\ stabpc = "select"
    /\ minedFeed = "closed"
    /\ stabpc' = "nil"
    /\ UNCHANGED <<schedVars, timerVars, subVars, poolSize, queueVars, buildVars,
                   minerVars, stabVars, fundVars, shutpc, txPoolStabilizedShutdownChan,
                   shutdownSubmitChan, minedFeed, subpc, consumed, replay, lockVars>>

StabilizedContinue ==
    /\ stabpc = "nil"
    /\ stabpc' = "select"
    /\ UNCHANGED <<schedVars, timerVars, subVars, poolSize, queueVars, buildVars,
                   minerVars, stabVars, fundVars, shutpc, txPoolStabilizedShutdownChan,
                   shutdownSubmitChan, minedFeed, subpc, consumed, replay, lockVars>>

\* mutant: a closed shutdown channel is never selected
ShutdownNeverSignalled(ch) == FALSE

\* a receive from a closed channel is ready
ShutdownSignalled(ch) == ch = "closed"

\* case <-vm.txPoolStabilizedShutdownChan: return (and shutdownWg.Done)
StabilizedShutdown ==
    /\ stabpc = "select"
    /\ ShutdownSignalled(txPoolStabilizedShutdownChan)
    /\ stabpc' = "exit"
    /\ UNCHANGED <<schedVars, timerVars, subVars, poolSize, queueVars, buildVars,
                   minerVars, stabVars, fundVars, shutpc, txPoolStabilizedShutdownChan,
                   shutdownSubmitChan, minedFeed, subpc, consumed, replay, lockVars>>

\* case <-vm.shutdownSubmitChan: return (and shutdownWg.Done)
SubmittedShutdown ==
    /\ subpc = "select"
    /\ lockpc["listener"] = "idle"
    /\ ShutdownSignalled(shutdownSubmitChan)
    /\ subpc' = "exit"
    /\ UNCHANGED <<schedVars, timerVars, subVars, poolSize, queueVars, buildVars,
                   minerVars, stabVars, fundVars, shutpc, txPoolStabilizedShutdownChan,
                   shutdownSubmitChan, minedFeed, stabpc, consumed, replay, lockVars>>

\* ---- Shutdown -----------------------------------------------------------
ShutdownCloseStabilized ==
    /\ shutpc = "none"
    /\ txPoolStabilizedShutdownChan' = "closed"
    /\ shutpc' = "closeSubmit"
    /\ UNCHANGED <<schedVars, timerVars, subVars, poolSize, queueVars, buildVars,
                   minerVars, stabVars, fundVars, shutdownSubmitChan, minedFeed,
                   stabpc, subpc, consumed, replay, lockVars>>

ShutdownCloseSubmit ==
    /\ shutpc = "closeSubmit"
    /\ shutdownSubmitChan' = "closed"
    /\ shutpc' = "stop"
    /\ UNCHANGED <<schedVars, timerVars, subVars, poolSize, queueVars, buildVars,
                   minerVars, stabVars, fundVars, txPoolStabilizedShutdownChan, minedFeed,
                   stabpc, subpc, consumed, replay, lockVars>>

\* vm.chain.Stop(): the chain stops and may close the mined-block feed
ChainStop ==
    /\ shutpc = "stop"
    /\ \E feed \in {"open", "closed"} : minedFeed' = feed
    /\ shutpc' = "wait"
    /\ UNCHANGED <<schedVars, timerVars, subVars, poolSize, queueVars, buildVars,
                   minerVars, stabVars, fundVars, txPoolStabilizedShutdownChan,
                   shutdownSubmitChan, stabpc, subpc, consumed, replay, lockVars>>

\* vm.shutdownWg.Wait() returns once both listeners are done
ShutdownWait ==
    /\ shutpc = "wait"
    /\ stabpc = "exit"
    /\ subpc = "exit"
    /\ shutpc' = "done"
    /\ UNCHANGED <<schedVars, timerVars, subVars, poolSize, queueVars, buildVars,
                   minerVars, stabVars, fundVars, txPoolStabilizedShutdownChan,
                   shutdownSubmitChan, minedFeed, stabpc, subpc, consumed, replay, lockVars>>

\* ---- vm.bdlock and vm.genlock ----------------------------------------------
\* the threads that call tryBlockGen
TryThreads == {"listener", "timer"}

\* mutant: the callback keeps bdlock when it goes on to tryBlockGen
LockKeptByCallback(t) == t

\* vm.bdlock.Unlock() of the callback, before the call of tryBlockGen
LockReleasedByCallback(t) == "free"

\* vm.bdlock.Lock() in tryBlockGen
LockTryAcquireBd(t) ==
    /\ lockpc[t] = "try.lock"
    /\ bdlock = "free"
    /\ bdlock' = t
    /\ SetLockPc(t, "try.flag")
    /\ UNCHANGED <<genlock, trySize, schedVars, timerVars, subVars, poolSize, queueVars,
                   buildVars, minerVars, stabVars, fundVars, shutVars, consumed, replay>>

\* if vm.bdGenFlag { return nil }; vm.bdGenWaitFlag = true
LockTryCheckFlag(t) ==
    /\ lockpc[t] = "try.flag"
    /\ IF ProposalInFlight(bdGenFlag)
       THEN /\ SetLockPc(t, "try.unlockBd")
            /\ UNCHANGED bdGenWaitFlag
       ELSE /\ bdGenWaitFlag' = TRUE
            /\ SetLockPc(t, "try.genlock")
    /\ UNCHANGED <<bdTimerState, bdGenFlag, networkChan, sinceNotify, bdlock, genlock,
                   trySize, timerVars, subVars, poolSize, queueVars, buildVars, minerVars,
                   stabVars, fundVars, shutVars, consumed, replay>>

\* vm.genlock.Lock()
LockTryAcquireGen(t) ==
    /\ lockpc[t] = "try.genlock"
    /\ genlock = "free"
    /\ genlock' = t
    /\ SetLockPc(t, "try.size")
    /\ UNCHANGED <<bdlock, trySize, schedVars, timerVars, subVars, poolSize, queueVars,
                   buildVars, minerVars, stabVars, fundVars, shutVars, consumed, replay>>

\* size, err := vm.chain.PendingSize(), and the return on an error
LockTrySize(t) ==
    /\ lockpc[t] = "try.size"
    /\ \E pendingSizeErr \in BOOLEAN :
         IF pendingSizeErr
         THEN /\ SetLockPc(t, "try.unlockGen")
              /\ UNCHANGED trySize
         ELSE /\ trySize' = poolSize
              /\ SetLockPc(t, "try.queue")
    /\ UNCHANGED <<bdlock, genlock, schedVars, timerVars, subVars, poolSize, queueVars,
                   buildVars, minerVars, stabVars, fundVars, shutVars, consumed, replay>>

\* size == 0 && len(vm.pendingAtomicTxs) == 0, and the switch on the state;
\* the local size is not read after the switch
LockTryQueue(t) ==
    /\ lockpc[t] = "try.queue"
    /\ IF HasPendingWork(trySize, pendingAtomicTxs) /\ ShouldPropose(bdTimerState, trySize)
       THEN SetLockPc(t, "try.send")
       ELSE SetLockPc(t, "try.unlockGen")
    /\ trySize' = 0
    /\ UNCHANGED <<bdlock, genlock, schedVars, timerVars, subVars, poolSize, queueVars,
                   buildVars, minerVars, stabVars, fundVars, shutVars, consumed, replay>>

\* the select on vm.networkChan: the send, or errBlockFrequency
LockTrySend(t) ==
    /\ lockpc[t] = "try.send"
    /\ IF ChanFull(networkChan)
       THEN UNCHANGED <<networkChan, bdGenFlag, sinceNotify>>
       ELSE /\ networkChan' = networkChan + 1
            /\ bdGenFlag' = TRUE
            /\ sinceNotify' = 0
    /\ SetLockPc(t, IF ChanFull(networkChan) THEN "try.errFreq" ELSE "try.unlockGen")
    /\ UNCHANGED <<bdTimerState, bdGenWaitFlag, bdlock, genlock, trySize, timerVars,
                   subVars, poolSize, queueVars, buildVars, minerVars, stabVars, fundVars,
                   shutVars, consumed, replay>>

\* the deferred vm.genlock.Unlock()
LockTryReleaseGen(t) ==
    /\ lockpc[t] \in {"try.unlockGen", "try.errFreq"}
    /\ genlock' = "free"
    /\ SetLockPc(t, "try.unlockBd")
    /\ UNCHANGED <<bdlock, trySize, schedVars, timerVars, subVars, poolSize, queueVars,
                   buildVars, minerVars, stabVars, fundVars, shutVars, consumed, replay>>

\* the deferred vm.bdlock.Unlock(); the timer's handler returns with it
LockTryReleaseBd(t) ==
    /\ lockpc[t] = "try.unlockBd"
    /\ bdlock' = "free"
    /\ SetLockPc(t, "idle")
    /\ cbpc' = IF t = "timer" THEN "idle" ELSE cbpc
    /\ UNCHANGED <<genlock, trySize, timerArmed, timerLeft, schedVars, subVars, poolSize,
                   queueVars, buildVars, minerVars, stabVars, fundVars, shutVars, consumed,
                   replay>>

\* vm.bdlock.Lock() in the timer callback
LockCallbackAcquire ==
    /\ cbpc = "dispatched"
    /\ lockpc["timer"] = "idle"
    /\ bdlock = "free"
    /\ bdlock' = "timer"
    /\ SetLockPc("timer", "cb.body")
    /\ UNCHANGED <<genlock, trySize, schedVars, timerVars, subVars, poolSize, queueVars,
                   buildVars, minerVars, stabVars, fundVars, shutVars, consumed, replay>>

LockCallbackBody ==
    /\ lockpc["timer"] = "cb.body"
    /\ TimerCallbackBody
    /\ SetLockPc("timer", "cb.unlock")
    /\ UNCHANGED <<bdlock, genlock, trySize, subVars, poolSize, queueVars, buildVars,
                   minerVars, stabVars, fundVars, shutVars, consumed, replay>>

\* vm.bdlock.Unlock(), then tryBlockGen if tryAgain
LockCallbackRelease ==
    /\ lockpc["timer"] = "cb.unlock"
    /\ bdlock' = LockReleasedByCallback("timer")
    /\ SetLockPc("timer", IF cbpc = "retry" THEN "try.lock" ELSE "idle")
    /\ UNCHANGED <<genlock, trySize, schedVars, timerVars, subVars, poolSize, queueVars,
                   buildVars, minerVars, stabVars, fundVars, shutVars, consumed, replay>>

\* vm.bdlock.Lock() in buildBlock
LockResetAcquire ==
    /\ bbpc = "reset"
    /\ lockpc["builder"] = "idle"
    /\ bdlock = "free"
    /\ bdlock' = "builder"
    /\ SetLockPc("builder", "reset.body")
    /\ UNCHANGED <<genlock, trySize, schedVars, timerVars, subVars, poolSize, queueVars,
                   buildVars, minerVars, stabVars, fundVars, shutVars, consumed, replay>>

LockResetBody ==
    /\ lockpc["builder"] = "reset.body"
    /\ BuildBlockResetBody
    /\ SetLockPc("builder", "reset.unlock")
    /\ UNCHANGED <<bdlock, genlock, trySize, subVars, poolSize, queueVars, minerVars,
                   stabVars, fundVars, shutVars, consumed, replay>>

LockResetRelease ==
    /\ lockpc["builder"] = "reset.unlock"
    /\ bdlock' = "free"
    /\ SetLockPc("builder", "idle")
    /\ UNCHANGED <<genlock, trySize, schedVars, timerVars, subVars, poolSize, queueVars,
                   buildVars, minerVars, stabVars, fundVars, shutVars, consumed, replay>>

\* The steps of tryBlockGen between the Lock of line 567 and the deferred
\* Unlock of line 568; a thread is at one of them at a time.
LockTryHolderStep(t) ==
    \/ LockTryCheckFlag(t)
    \/ LockTryAcquireGen(t)
    \/ LockTrySize(t)
    \/ LockTryQueue(t)
    \/ LockTrySend(t)
    \/ LockTryReleaseGen(t)
    \/ LockTryReleaseBd(t)

\* the locked section of the timer's handler (lines 342-351)
LockCallbackHolderStep == LockCallbackBody \/ LockCallbackRelease

\* the locked section of buildBlock (lines 460-465)
LockResetHolderStep == LockResetBody \/ LockResetRelease

\* A thread inside a locked section runs on: the holder of a lock is not
\* suspended for ever.
FairLockSteps ==
    /\ \A t \in TryThreads : WF_vars(LockTryHolderStep(t))
    /\ WF_vars(LockCallbackHolderStep)
    /\ WF_vars(LockResetHolderStep)

\* A thread waiting for vm.bdlock gets it when it is released again and again
\* (sync.Mutex hands the lock to a waiter that has waited long).
FairLockWaits ==
    /\ \A t \in TryThreads : SF_vars(LockTryAcquireBd(t))
    /\ SF_vars(LockCallbackAcquire)
    /\ SF_vars(LockResetAcquire)

Next ==
    \/ SubmittedTx
    \/ SubmittedAtomicTx
    \/ IdleTimeout
    \/ \E t \in TryThreads : LockTryAcquireBd(t)
    \/ \E t \in TryThreads : LockTryCheckFlag(t)
    \/ \E t \in TryThreads : LockTryAcquireGen(t)
    \/ \E t \in TryThreads : LockTrySize(t)
    \/ \E t \in TryThreads : LockTryQueue(t)
    \/ \E t \in TryThreads : LockTrySend(t)
    \/ \E t \in TryThreads : LockTryReleaseGen(t)
    \/ \E t \in TryThreads : LockTryReleaseBd(t)
    \/ Tick
    \/ TimerFire
    \/ LockCallbackAcquire
    \/ LockCallbackBody
    \/ LockCallbackRelease
    \/ EngineRecv
    \/ PoolChange
    \/ issueTx
    \/ issueTxWake
    \/ BuildBlockCall
    \/ OnFinalizeAndAssemble
    \/ OnSealFinish
    \/ OnSealFinishRecord
    \/ BuildBlockRecv
    \/ BuildBlockWait
    \/ awaitTxPoolStabilized
    \/ awaitTxPoolStabilizedLocked
    \/ LockResetAcquire
    \/ LockResetBody
    \/ LockResetRelease

Spec == Init /\ [][Next]_vars

\* The whole machine over fewer build attempts and submissions, the chain
\* posting one mined-block event for each block it mined, for the properties
\* of single scheduler steps.
SchedBuildBlockCall ==
    /\ nextHash <= MaxSchedBuilds
    /\ BuildBlockCall

SchedIssueTx ==
    /\ nextTx <= MaxSchedAtomicTx
    /\ issueTx

NextSched ==
    \/ SubmittedTx
    \/ SubmittedAtomicTx
    \/ IdleTimeout
    \/ \E t \in TryThreads : LockTryAcquireBd(t)
    \/ \E t \in TryThreads : LockTryCheckFlag(t)
    \/ \E t \in TryThreads : LockTryAcquireGen(t)
    \/ \E t \in TryThreads : LockTrySize(t)
    \/ \E t \in TryThreads : LockTryQueue(t)
    \/ \E t \in TryThreads : LockTrySend(t)
    \/ \E t \in TryThreads : LockTryReleaseGen(t)
    \/ \E t \in TryThreads : LockTryReleaseBd(t)
    \/ Tick
    \/ TimerFire
    \/ LockCallbackAcquire
    \/ LockCallbackBody
    \/ LockCallbackRelease
    \/ EngineRecv
    \/ PoolChange
    \/ SchedIssueTx
    \/ issueTxWake
    \/ SchedBuildBlockCall
    \/ OnFinalizeAndAssemble
    \/ OnSealFinish
    \/ OnSealFinishRecord
    \/ BuildBlockRecv
    \/ BuildBlockWait
    \/ MinedEventDue
    \/ awaitTxPoolStabilizedLocked
    \/ LockResetAcquire
    \/ LockResetBody
    \/ LockResetRelease

SpecSched == Init /\ [][NextSched]_vars

\* The scheduler, the timer and the assembly path over ordinary transactions
\* alone, with the full number of build attempts.  The timer's dispatcher is a
\* goroutine of its own (VM.start): time passes, a due timeout fires, and the
\* callback runs to its end.
NextTimer ==
    \/ SubmittedTx
    \/ IdleTimeout
    \/ \E t \in TryThreads : LockTryAcquireBd(t)
    \/ \E t \in TryThreads : LockTryCheckFlag(t)
    \/ \E t \in TryThreads : LockTryAcquireGen(t)
    \/ \E t \in TryThreads : LockTrySize(t)
    \/ \E t \in TryThreads : LockTryQueue(t)
    \/ \E t \in TryThreads : LockTrySend(t)
    \/ \E t \in TryThreads : LockTryReleaseGen(t)
    \/ \E t \in TryThreads : LockTryReleaseBd(t)
    \/ Tick
    \/ TimerFire
    \/ LockCallbackAcquire
    \/ LockCallbackBody
    \/ LockCallbackRelease
    \/ EngineRecv
    \/ PoolChange
    \/ BuildBlockCall
    \/ OnFinalizeAndAssemble
    \/ OnSealFinish
    \/ OnSealFinishRecord
    \/ BuildBlockRecv
    \/ BuildBlockWait
    \/ awaitTxPoolStabilized
    \/ awaitTxPoolStabilizedLocked
    \/ LockResetAcquire
    \/ LockResetBody
    \/ LockResetRelease

\* Time passes, a due timeout is dispatched, lock holders run on, and the
\* dispatcher's goroutine gets vm.bdlock when it is released again and again.
\* Nothing is assumed of the listener's and of buildBlock's waits.
FairTimer ==
    /\ WF_vars(Tick)
    /\ WF_vars(TimerFire)
    /\ FairLockSteps
    /\ SF_vars(LockCallbackAcquire)
    /\ SF_vars(LockTryAcquireBd("timer"))

SpecTimer == Init /\ [][NextTimer]_vars /\ FairTimer

\* The same machine with the listener woken by its idle timeout alone (the
\* submit signal is never taken, which no timer or reset step reads) and
\* the chain posting one mined-block event for each block it mined.
NextRearm ==
    \/ IdleTimeout
    \/ \E t \in TryThreads : LockTryAcquireBd(t)
    \/ \E t \in TryThreads : LockTryCheckFlag(t)
    \/ \E t \in TryThreads : LockTryAcquireGen(t)
    \/ \E t \in TryThreads : LockTrySize(t)
    \/ \E t \in TryThreads : LockTryQueue(t)
    \/ \E t \in TryThreads : LockTrySend(t)
    \/ \E t \in TryThreads : LockTryReleaseGen(t)
    \/ \E t \in TryThreads : LockTryReleaseBd(t)
    \/ Tick
    \/ TimerFire
    \/ LockCallbackAcquire
    \/ LockCallbackBody
    \/ LockCallbackRelease
    \/ EngineRecv
    \/ PoolChange
    \/ BuildBlockCall
    \/ OnFinalizeAndAssemble
    \/ OnSealFinish
    \/ OnSealFinishRecord
    \/ BuildBlockRecv
    \/ BuildBlockWait
    \/ MinedEventDue
    \/ awaitTxPoolStabilizedLocked
    \/ LockResetAcquire
    \/ LockResetBody
    \/ LockResetRelease

SpecRearm == Init /\ [][NextRearm]_vars /\ FairTimer

\* The same machine where nothing is assumed but that a thread inside a
\* locked section runs on.
FairLocks == FairLockSteps

SpecLocks == Init /\ [][NextRearm]_vars /\ FairLocks

\* vm.chain.PendingSize() returns a size: the query does not fail for ever
PendingSizeReturns(t) ==
    /\ LockTrySize(t)
    /\ lockpc'[t] = "try.queue"

\* The machine driven by an engine that calls buildBlock once for every
\* notification it receives.  Time advances, the timer and the idle timeout
\* fire, the engine serves the notification channel, and every thread that
\* can step does.
NextLive ==
    \/ SubmittedTx
    \/ SubmittedAtomicTx
    \/ IdleTimeout
    \/ \E t \in TryThreads : LockTryAcquireBd(t)
    \/ \E t \in TryThreads : LockTryCheckFlag(t)
    \/ \E t \in TryThreads : LockTryAcquireGen(t)
    \/ \E t \in TryThreads : LockTrySize(t)
    \/ \E t \in TryThreads : LockTryQueue(t)
    \/ \E t \in TryThreads : LockTrySend(t)
    \/ \E t \in TryThreads : LockTryReleaseGen(t)
    \/ \E t \in TryThreads : LockTryReleaseBd(t)
    \/ Tick
    \/ TimerFire
    \/ LockCallbackAcquire
    \/ LockCallbackBody
    \/ LockCallbackRelease
    \/ PoolChange
    \/ SchedIssueTx
    \/ issueTxWake
    \/ EngineProposes
    \/ OnFinalizeAndAssemble
    \/ OnSealFinish
    \/ OnSealFinishRecord
    \/ BuildBlockRecv
    \/ BuildBlockWait
    \/ awaitTxPoolStabilized
    \/ awaitTxPoolStabilizedLocked
    \/ LockResetAcquire
    \/ LockResetBody
    \/ LockResetRelease

FairLive ==
    /\ WF_vars(SubmittedTx)
    /\ WF_vars(SubmittedAtomicTx)
    /\ WF_vars(IdleTimeout)
    /\ WF_vars(Tick)
    /\ WF_vars(TimerFire)
    /\ FairLockSteps
    /\ FairLockWaits
    /\ WF_vars(EngineProposes)
    /\ WF_vars(OnFinalizeAndAssemble)
    /\ WF_vars(OnSealFinish)
    /\ WF_vars(OnSealFinishRecord)
    /\ WF_vars(BuildBlockRecv)
    /\ WF_vars(BuildBlockWait)
    /\ WF_vars(MinedEventDue)
    /\ WF_vars(awaitTxPoolStabilizedLocked)
    /\ WF_vars(issueTxWake)
    /\ \A t \in TryThreads : SF_vars(PendingSizeReturns(t))

SpecLive == Init /\ [][NextLive]_vars /\ FairLive

\* The assembly path alone.  The actions left out write only the scheduler,
\* timer and listener variables, which no action kept here reads.
NextBuild ==
    \/ PoolChange
    \/ issueTx
    \/ issueTxWake
    \/ BuildBlockCall
    \/ OnFinalizeAndAssemble
    \/ OnSealFinish
    \/ OnSealFinishRecord
    \/ BuildBlockRecv
    \/ BuildBlockReset
    \/ BuildBlockWait
    \/ awaitTxPoolStabilized
    \/ awaitTxPoolStabilizedLocked

SpecBuild == Init /\ [][NextBuild]_vars

\* The assembly path with the engine processing blocks, its own and those of
\* other nodes.
NextReplay ==
    \/ PoolChange
    \/ issueTx
    \/ issueTxWake
    \/ BuildBlockCall
    \/ OnFinalizeAndAssemble
    \/ OnSealFinish
    \/ OnSealFinishRecord
    \/ BuildBlockRecv
    \/ BuildBlockReset
    \/ BuildBlockWait
    \/ awaitTxPoolStabilized
    \/ awaitTxPoolStabilizedLocked
    \/ OnExtraStateChange

SpecReplay == Init /\ [][NextReplay]_vars

\* Shutdown with the listeners and the assembly path, while no ordinary
\* transaction arrives (blocks carry atomic transactions only) and the
\* engine's build attempts are bounded by MaxSchedBuilds.  The timer
\* thread is left out: Shutdown does not wait for it, and neither a
\* listener's exit nor the builder reads what it writes.  A select with
\* several ready cases takes each of them sooner or later, and a thread that
\* can step does.
NextShutdown ==
    \/ SubmittedAtomicTx
    \/ IdleTimeout
    \/ \E t \in TryThreads : LockTryAcquireBd(t)
    \/ \E t \in TryThreads : LockTryCheckFlag(t)
    \/ \E t \in TryThreads : LockTryAcquireGen(t)
    \/ \E t \in TryThreads : LockTrySize(t)
    \/ \E t \in TryThreads : LockTryQueue(t)
    \/ \E t \in TryThreads : LockTrySend(t)
    \/ \E t \in TryThreads : LockTryReleaseGen(t)
    \/ \E t \in TryThreads : LockTryReleaseBd(t)
    \/ EngineRecv
    \/ issueTx
    \/ issueTxWake
    \/ SchedBuildBlockCall
    \/ OnFinalizeAndAssemble
    \/ OnSealFinish
    \/ OnSealFinishRecord
    \/ BuildBlockRecv
    \/ BuildBlockWait
    \/ awaitTxPoolStabilized
    \/ awaitTxPoolStabilizedLocked
    \/ LockResetAcquire
    \/ LockResetBody
    \/ LockResetRelease
    \/ StabilizedFeedClosed
    \/ StabilizedContinue
    \/ StabilizedShutdown
    \/ SubmittedShutdown
    \/ ShutdownCloseStabilized
    \/ ShutdownCloseSubmit
    \/ ChainStop
    \/ ShutdownWait

FairShutdown ==
    /\ WF_vars(ShutdownCloseSubmit)
    /\ WF_vars(ChainStop)
    /\ WF_vars(ShutdownWait)
    /\ WF_vars(StabilizedContinue)
    /\ WF_vars(awaitTxPoolStabilizedLocked)
    /\ SF_vars(StabilizedShutdown)
    /\ SF_vars(SubmittedShutdown)
    /\ WF_vars(BuildBlockWait)
    /\ FairLockSteps
    /\ SF_vars(LockTryAcquireBd("listener"))

SpecShutdown == Init /\ [][NextShutdown]_vars /\ FairShutdown

\* ---- claims on the scheduler ----------------------------------------------
\* C1: no two "build requested" notifications sent by tryBlockGen are closer
\* together than minBlockTime, for any interleaving of triggers, timer fires
\* and buildBlock calls.
C1_MinIntervalBetweenNotifications ==
    [][networkChan' > networkChan =>
         (sinceNotify = -1 \/ sinceNotify >= minBlockTime)]_vars

\* C2: every buildBlock call, whether it received a block or the nil marker,
\* leaves the scheduler in state Min with bdGenFlag and bdGenWaitFlag false
\* and the timer armed for minBlockTime.
C2_ResetAfterEveryBuild ==
    [][((bbpc = "recv" /\ bbpc' = "idle") \/ (bbpc = "reset" /\ bbpc' = "wait")) =>
         /\ bdTimerState' = bdTimerStateMin
         /\ ~bdGenFlag'
         /\ ~bdGenWaitFlag'
         /\ timerArmed'
         /\ timerLeft' = minBlockTime]_vars

\* ---- claims on the assembly path -------------------------------------------
\* C3: a buildBlock call that received block H returns success only on a
\* stabilized signal posted for a mined-block event with hash H while H was
\* the expected head.
C3_ReleasedByOwnBlock ==
    bbErr = "nil" =>
        /\ bbBlock # 0
        /\ releasedBy.event = bbBlock
        /\ releasedBy.head = bbBlock

C3_Witness ==
    /\ bbErr = "nil"
    /\ bbBlock = 2
    /\ releasedBy.event = 2
    /\ curDelivered

\* C4: once block H is handed to buildBlock, a mined-block event reporting H
\* resolves the wait, wherever it is delivered relative to the hand-off and to
\* the recording of H as expected head: when the seal callback has returned
\* and an event for H was received and handled by the listener, the waiting
\* buildBlock finds the signal.
C4_EventResolvesWait ==
    (bbpc = "wait" /\ minerpc = "idle" /\ curDelivered /\ stabpc \notin {"lock", "send"})
        => txPoolStabilizedOk # <<>>

\* C5: the queue never holds more than pendingAtomicTxsCap transactions; an
\* issueTx on a full queue fails with errTooManyAtomicTx and admits nothing,
\* any other issueTx succeeds and appends the transaction.
C5_QueueBounded ==
    [][/\ Len(pendingAtomicTxs) <= pendingAtomicTxsCap
       /\ Len(pendingAtomicTxs') <= pendingAtomicTxsCap
       /\ nextTx' # nextTx =>
            IF Len(pendingAtomicTxs) >= pendingAtomicTxsCap
            THEN /\ issueErr' = "errTooManyAtomicTx"
                 /\ pendingAtomicTxs' = pendingAtomicTxs
                 /\ issuepc' = "idle"
            ELSE /\ pendingAtomicTxs' = Append(pendingAtomicTxs, nextTx)
                 /\ issuepc' = "wake"
       /\ (issuepc = "wake" /\ issuepc' = "idle") => issueErr' = "nil"
       /\ issueErr' = "errTooManyAtomicTx" => issuepc' = "idle"]_vars

\* transaction 1 was rejected on the full queue, a slot was drained, and
\* transaction 2 was admitted
C5_Witness ==
    /\ Len(pendingAtomicTxs) = pendingAtomicTxsCap
    /\ pendingAtomicTxs[pendingAtomicTxsCap] = 2
    /\ pendingAtomicTxs[pendingAtomicTxsCap - 1] <= 0
    /\ issueErr = "nil"

\* C6: each finalize-and-assemble invocation dequeues at most one atomic
\* transaction, and an assembled block embeds at most one.
C6_OneAtomicTxPerBlock ==
    [][/\ Len(pendingAtomicTxs) - Len(pendingAtomicTxs') <= 1
       /\ Len(curBlock'.extra) <= 1
       /\ Len(curBlock'.extra) = 1 =>
            (curBlock' = curBlock \/ curBlock'.extra = <<Head(pendingAtomicTxs)>>)]_vars

\* a block was assembled with one atomic transaction while another is pending
C6_Witness ==
    /\ Len(curBlock.extra) = 1
    /\ Len(pendingAtomicTxs) >= 1
    /\ minerpc = "seal"

\* C7: a failed attempt (state transfer fails, empty block, or verification
\* fails) publishes exactly one nil marker and buildBlock returns
\* errCreateBlock with no block; no attempt ends with buildBlock still waiting
\* on the new-block channel, and no empty block reaches sealing.
C7_FailureSurfaces ==
    /\ nbSent <= 1
    /\ minerpc = "sendNil" => (newBlockChan = <<0>> /\ nbSent = 1 /\ bbpc = "recv")
    /\ minerpc = "idle" => bbpc # "recv"
    /\ bbErr = "errCreateBlock" => (bbBlock = 0 /\ bbpc = "idle" /\ nbSent = 1)
    /\ minerpc \in {"seal", "sendBlk", "record"} =>
         (Len(curBlock.extra) > 0 \/ curBlock.ntx > 0)
    /\ bbpc \in {"reset", "wait"} => (bbBlock = curBlock.hash /\ nbSent = 1)

\* buildBlock returned errCreateBlock for a block that failed verification
C7_Witness ==
    /\ bbErr = "errCreateBlock"
    /\ curBlock.hash # 0
    /\ minerpc = "idle"

\* The assembly path from a state reached by submissions alone: the queue
\* already holds pendingAtomicTxsCap - 1 or pendingAtomicTxsCap transactions
\* (numbered -n+1 .. 0, in submission order).
InitQueue ==
    /\ InitVM
    /\ \E n \in {pendingAtomicTxsCap - 1, pendingAtomicTxsCap} :
         pendingAtomicTxs = [i \in 1..n |-> i - n]
    /\ InitFundsIdle

SpecQueue == InitQueue /\ [][NextBuild]_vars

\* ---- GetSpendableFunds -------------------------------------------------
Keys == {1, 2, 3}
BalanceValues == {0, 5, 10}
Amounts == {0, 1, 5, 8, 15, 16, 20}
Failures == {"none", "blockState", "nonce"}

GetEthAddress(key) == <<"addr", key>>
Addresses == {GetEthAddress(k) : k \in Keys}
KeySeqs == UNION {[1..n -> Keys] : n \in 0..MaxKeys}

\* nonce of an address at the last accepted block
GetAcceptedNonce(addr) == addr[2] - 1

\* mutant: zero balances are not skipped
SkipNothing(balance) == FALSE

\* balance == 0: the identity is skipped
SkipBalance(balance) == balance = 0

\* mutant: the whole balance is spent, whatever is still needed
SpendWholeBalance(balance, amount) == balance

\* mutant: what is still needed is spent, whatever the balance
SpendRemaining(balance, amount) == amount

\* if amount < balance { balance = amount }
SpendFrom(balance, amount) == IF amount < balance THEN amount ELSE balance

\* the loop over keys[i..], with the inputs and signers collected so far;
\* bal[addr] is the balance of the asset read from the state, as a uint64
RECURSIVE SelectFunds(_, _, _, _, _, _, _)
SelectFunds(keys, i, bal, fail, amount, inputs, signers) ==
    IF i > Len(keys) \/ amount = 0
    THEN IF amount > 0
         THEN [status |-> "errInsufficientFunds", inputs |-> <<>>, signers |-> <<>>]
         ELSE [status |-> "ok", inputs |-> inputs, signers |-> signers]
    ELSE LET addr == GetEthAddress(keys[i])
             balance == bal[addr]
         IN IF SkipBalance(balance)
            THEN SelectFunds(keys, i + 1, bal, fail, amount, inputs, signers)
            ELSE IF fail = "nonce"
                 THEN [status |-> "errState", inputs |-> <<>>, signers |-> <<>>]
                 ELSE LET spend == SpendFrom(balance, amount)
                      IN SelectFunds(keys, i + 1, bal, fail, amount - spend,
                                     Append(inputs, [Address |-> addr,
                                                     Amount |-> spend,
                                                     Nonce |-> GetAcceptedNonce(addr)]),
                                     Append(signers, <<keys[i]>>))

GetSpendableFunds(keys, bal, fail, amount) ==
    IF fail = "blockState"
    THEN [status |-> "errState", inputs |-> <<>>, signers |-> <<>>]
    ELSE SelectFunds(keys, 1, bal, fail, amount, <<>>, <<>>)

InitFunds ==
    /\ InitVM
    /\ pendingAtomicTxs = <<>>
    /\ fkeys \in KeySeqs
    /\ fbalance \in [Addresses -> BalanceValues]
    /\ famount \in Amounts
    /\ ffail \in Failures
    /\ fresult = [status |-> "none", inputs |-> <<>>, signers |-> <<>>]

CallGetSpendableFunds ==
    /\ fresult.status = "none"
    /\ fresult' = GetSpendableFunds(fkeys, fbalance, ffail, famount)
    /\ UNCHANGED <<fkeys, fbalance, famount, ffail, schedVars, timerVars, subVars,
                   poolSize, queueVars, buildVars, minerVars, stabVars, shutVars, consumed,
                   replay, lockVars>>

NextFunds == CallGetSpendableFunds

SpecFunds == InitFunds /\ [][NextFunds]_vars

\* ---- claims on the fund selector -------------------------------------------
IsDistinct(keys) == \A i, j \in 1..Len(keys) : i # j => keys[i] # keys[j]

RECURSIVE SumAmounts(_)
SumAmounts(inputs) ==
    IF inputs = <<>> THEN 0 ELSE Head(inputs).Amount + SumAmounts(Tail(inputs))

RECURSIVE SumBalances(_, _)
SumBalances(keys, bal) ==
    IF keys = <<>> THEN 0
    ELSE bal[GetEthAddress(Head(keys))] + SumBalances(Tail(keys), bal)

Drawn(inputs, addr) ==
    SumAmounts(SelectSeq(inputs, LAMBDA in : in.Address = addr))

FundsDone == fresult.status # "none"

\* identities one, two, three with balances 0, 5, 10 and a target of 8
ExampleInput ==
    /\ fkeys = <<1, 2, 3>>
    /\ fbalance = [a \in Addresses |-> CASE a[2] = 1 -> 0 [] a[2] = 2 -> 5 [] OTHER -> 10]
    /\ ffail = "none"

\* C8 as stated: balances [0, 5, 10] and target 8 select only the second
\* identity, for amount 8.
C8_OnlySecondIdentity ==
    (ExampleInput /\ famount = 8 /\ FundsDone) =>
        /\ fresult.status = "ok"
        /\ Len(fresult.inputs) = 1
        /\ fresult.inputs[1].Address = GetEthAddress(2)
        /\ fresult.inputs[1].Amount = 8

\* C8 amended: balances [0, 5, 10] and target 8 select the second identity
\* for 5 and the third for 3; the first is skipped.
C8_SecondThenThird ==
    (ExampleInput /\ famount = 8 /\ FundsDone) =>
        /\ fresult.status = "ok"
        /\ Len(fresult.inputs) = 2
        /\ fresult.inputs[1].Address = GetEthAddress(2)
        /\ fresult.inputs[1].Amount = 5
        /\ fresult.inputs[2].Address = GetEthAddress(3)
        /\ fresult.inputs[2].Amount = 3
        /\ fresult.signers = << <<2>>, <<3>> >>

C8_Witness == ExampleInput /\ famount = 8 /\ fresult.status = "ok"

\* C9: for distinct identities and a positive target the selector succeeds
\* exactly when the balances sum to at least the target; on success the
\* amounts sum to the target, each is min(balance, amount still needed), the
\* inputs follow identity order and none has a zero balance; otherwise it
\* fails with insufficient funds and returns no inputs.
C9_GreedyCoverage ==
    (IsDistinct(fkeys) /\ famount > 0 /\ ffail = "none" /\ FundsDone) =>
        LET ins == fresult.inputs
            n == Len(ins)
        IN /\ fresult.status \in {"ok", "errInsufficientFunds"}
           /\ fresult.status = "ok" <=> SumBalances(fkeys, fbalance) >= famount
           /\ fresult.status = "ok" =>
                /\ SumAmounts(ins) = famount
                /\ Len(fresult.signers) = n
                /\ \A j \in 1..n :
                     /\ fbalance[ins[j].Address] > 0
                     /\ ins[j].Amount =
                          Min(fbalance[ins[j].Address],
                              famount - SumAmounts(SubSeq(ins, 1, j - 1)))
                     /\ ins[j].Address = GetEthAddress(fresult.signers[j][1])
                /\ \E pos \in [1..n -> 1..Len(fkeys)] :
                     /\ \A j \in 1..n : fresult.signers[j] = <<fkeys[pos[j]]>>
                     /\ \A j \in 1..(n - 1) : pos[j] < pos[j + 1]
           /\ fresult.status = "errInsufficientFunds" =>
                (fresult.inputs = <<>> /\ fresult.signers = <<>>)

\* balances [0, 5, 10] and target 20: insufficient funds
C9_Witness == ExampleInput /\ famount = 20 /\ fresult.status = "errInsufficientFunds"

\* C10 as stated: in every successful output every account contributes at
\* most one input, for any sequence of signing identities, repeated ones
\* included, and no account is drawn beyond its balance.
C10_OneInputPerIdentity ==
    fresult.status = "ok" =>
        /\ \A i, j \in 1..Len(fresult.inputs) :
             i # j => fresult.inputs[i].Address # fresult.inputs[j].Address
        /\ \A a \in Addresses : Drawn(fresult.inputs, a) <= fbalance[a]

\* C10 amended: the same, for sequences of pairwise distinct identities.
C10_OneInputPerDistinctIdentity ==
    (IsDistinct(fkeys) /\ fresult.status = "ok") =>
        /\ \A i, j \in 1..Len(fresult.inputs) :
             i # j => fresult.inputs[i].Address # fresult.inputs[j].Address
        /\ \A a \in Addresses : Drawn(fresult.inputs, a) <= fbalance[a]

C10_Witness ==
    /\ IsDistinct(fkeys)
    /\ fresult.status = "ok"
    /\ Len(fresult.inputs) = 3

\* ---- claims on the queue and its consumption ---------------------------------
Range(f) == {f[i] : i \in DOMAIN f}

NoDuplicates(f) == \A i, j \in DOMAIN f : i # j => f[i] # f[j]

\* C14: an admitted atomic transaction is dequeued by one finalize-and-
\* assemble invocation and never by two, and is embedded in at most one
\* assembled block: no transaction is received twice, none is both received
\* and still queued, only admitted ones are received, and a new block embeds
\* the transaction its own invocation received, and no earlier one.
C14_ConsumedOnce ==
    [][/\ NoDuplicates(consumed')
       /\ NoDuplicates(pendingAtomicTxs')
       /\ Range(consumed') \cap Range(pendingAtomicTxs') = {}
       /\ Range(consumed') \subseteq 1..(nextTx - 1)
       /\ (curBlock' # curBlock /\ Len(curBlock'.extra) > 0) =>
            /\ Len(consumed') = Len(consumed) + 1
            /\ curBlock'.extra = <<consumed'[Len(consumed')]>>
            /\ curBlock'.extra[1] \notin Range(consumed)]_vars

\* two transactions were received, the first by an earlier attempt, the
\* second embedded in the block of the current one
C14_Witness ==
    /\ consumed = <<1, 2>>
    /\ curBlock.hash = 2
    /\ curBlock.extra = <<2>>
    /\ pendingAtomicTxs = <<>>

\* ---- claims on shutdown ---------------------------------------------------
\* C11: once Shutdown has closed the stabilization-shutdown and the
\* submission-shutdown channels, both listeners exit and Shutdown returns,
\* whatever the state: transactions still queued, a stabilized signal
\* pending, the mined-block feed closed.
C11_ShutdownCompletes ==
    (shutpc \in {"stop", "wait"}) ~>
        (stabpc = "exit" /\ subpc = "exit" /\ shutpc = "done")

\* Shutdown has returned with a transaction queued, a signal pending and the
\* feed closed
C11_Witness ==
    /\ shutpc = "done"
    /\ Len(pendingAtomicTxs) > 0
    /\ txPoolStabilizedOk # <<>>
    /\ minedFeed = "closed"

\* C12: a buildBlock call waiting on the stabilized signal is released once
\* the process shuts down: it does not stay blocked after Shutdown returned.
C12_BuilderReleasedOnShutdown ==
    (bbpc = "wait" /\ shutpc = "done") ~> (bbpc = "idle")

\* ---- claims on tryBlockGen and the timer -----------------------------------
\* steps of a call of tryBlockGen, from a trigger or from the timer: the flag
\* check, the pending-size query, the look at the queue, the send
TryFlagStep == \E t \in TryThreads : lockpc[t] = "try.flag" /\ lockpc'[t] # "try.flag"
TrySizeStep == \E t \in TryThreads : lockpc[t] = "try.size" /\ lockpc'[t] # "try.size"
TryQueueStep == \E t \in TryThreads : lockpc[t] = "try.queue" /\ lockpc'[t] # "try.queue"
TrySendStep == \E t \in TryThreads : lockpc[t] = "try.send" /\ lockpc'[t] # "try.send"

\* C13: the generation lock is held by the assembly path as well as by
\* tryBlockGen, so the pending-size check of tryBlockGen never runs while a
\* build attempt is between its start and the end of its seal callback.
C13_SizeCheckNotDuringBuild ==
    [][(TrySizeStep \/ TryQueueStep) => minerpc = "idle"]_vars

\* C15: a notification is sent only when no proposal is in flight, there is
\* pending work, and the state is Long, or Max with at least batchSize
\* ordinary transactions pending; never in state Min, and not in state Max
\* on atomic transactions alone.
C15_NotifyOnlyWhenAllowed ==
    [][networkChan' > networkChan =>
         /\ TrySendStep
         /\ networkChan' = networkChan + 1
         /\ ~bdGenFlag
         /\ poolSize > 0 \/ Len(pendingAtomicTxs) > 0
         /\ bdTimerState # bdTimerStateMin
         /\ \/ bdTimerState = bdTimerStateLong
            \/ bdTimerState = bdTimerStateMax /\ poolSize >= batchSize]_vars

\* a notification was just sent in state Max, on a full batch
C15_Witness ==
    /\ bdTimerState = bdTimerStateMax
    /\ bdGenFlag
    /\ sinceNotify = 0
    /\ networkChan = 1
    /\ poolSize >= batchSize

\* C16: while a proposal is in flight every call of tryBlockGen, from a
\* trigger or from the timer, sends nothing and leaves the scheduler's state
\* alone; a notification is sent only with the flag clear and sets it, and
\* only buildBlock's reset clears it: one notification a round at most.
C16_InFlightCallsAreNoOps ==
    [][/\ (TryFlagStep /\ bdGenFlag) =>
            /\ UNCHANGED schedVars
            /\ \A t \in TryThreads : lockpc[t] = "try.flag" => lockpc'[t] = "try.unlockBd"
       /\ bdGenFlag => UNCHANGED networkChan \/ networkChan' < networkChan
       /\ networkChan' > networkChan => (~bdGenFlag /\ bdGenFlag')
       /\ (bdGenFlag /\ ~bdGenFlag') => (bbpc = "reset" /\ bbpc' = "wait")]_vars

\* a proposal is in flight, the engine has taken the notification, and the
\* listener has since served both an ordinary and an atomic submission
C16_Witness ==
    /\ bdGenFlag
    /\ networkChan = 0
    /\ sinceNotify = minBlockTime
    /\ poolSize > 0
    /\ txSubmitChan = 0
    /\ Len(pendingAtomicTxs) > 0
    /\ atomicTxSubmitChan = 0
    /\ lockpc["listener"] = "try.unlockBd"
    /\ genlock = "free"

\* C17: with the idle timeout and the timer firing and the engine answering
\* every notification with a buildBlock call, pending work leads to a
\* notification, whatever builds succeeded or failed before: once no build is
\* running, work that stays pending gets a notification sent.
C17_PendingWorkIsProposed ==
    (HasPendingWork(poolSize, pendingAtomicTxs) /\ bbpc = "idle") ~>
        (networkChan > 0 \/ ~HasPendingWork(poolSize, pendingAtomicTxs))

\* a step of the timer callback's section under bdlock
TimerCallbackStep == cbpc = "dispatched" /\ cbpc' # "dispatched"

\* a step of buildBlock's reset
BuildBlockResetStep == bbpc = "reset" /\ bbpc' = "wait"

\* what a step may do to the state, the timer and the retry
TimerStateStep ==
    /\ TimerCallbackStep =>
         /\ bdTimerState = bdTimerStateMin =>
              /\ bdTimerState' = bdTimerStateMax
              /\ timerArmed'
              /\ timerLeft' = IF maxBlockTime - minBlockTime > 0
                              THEN maxBlockTime - minBlockTime ELSE 0
         /\ bdTimerState = bdTimerStateMax =>
              /\ bdTimerState' = bdTimerStateLong
              /\ UNCHANGED <<timerArmed, timerLeft>>
         /\ bdTimerState = bdTimerStateLong =>
              (UNCHANGED <<bdTimerState, timerArmed, timerLeft>>)
         /\ (cbpc' = "retry") <=> bdGenWaitFlag
         /\ (cbpc' = "idle") <=> ~bdGenWaitFlag
    /\ (lockpc["timer"] = "cb.unlock" /\ lockpc'["timer"] # "cb.unlock") =>
         ((lockpc'["timer"] = "try.lock") <=> (cbpc = "retry"))
    /\ (cbpc = "retry" /\ cbpc' # "retry") => lockpc["timer"] = "try.unlockBd"
    /\ bdTimerState' # bdTimerState =>
         \/ TimerCallbackStep /\ bdTimerState' # bdTimerStateMin
         \/ BuildBlockResetStep /\ bdTimerState' = bdTimerStateMin

\* C18: the state starts at Long; a timer fire moves Min to Max and re-arms
\* the timer for maxBlockTime - minBlockTime (0 at least), moves Max to Long
\* without re-arming, and leaves Long alone; nothing but buildBlock moves the
\* state to Min, and nothing else changes it; a fire retries tryBlockGen
\* exactly when bdGenWaitFlag was set at the fire.
C18_TimerStateMachine ==
    /\ bdTimerState = bdTimerStateLong
    /\ [][TimerStateStep]_vars

\* a fire has moved Min to Max, re-armed the timer and asked for the retry
C18_Witness ==
    /\ bdTimerState = bdTimerStateMax
    /\ timerArmed
    /\ timerLeft = maxBlockTime - minBlockTime
    /\ cbpc = "retry"
    /\ bdGenWaitFlag

\* C19: a proposal that meets a full notification channel returns
\* errBlockFrequency at once: nothing is sent, bdGenFlag stays false, the
\* state is unchanged and bdGenWaitFlag is set, so that the next trigger or
\* timer fire is not skipped and makes the attempt again.
C19_FullChannelDropsProposal ==
    [][(TrySendStep /\ networkChan >= NetworkChanCap) =>
         /\ \A t \in TryThreads : lockpc[t] = "try.send" => lockpc'[t] = "try.errFreq"
         /\ ~bdGenFlag'
         /\ bdGenWaitFlag'
         /\ ~ProposalInFlight(bdGenFlag')
         /\ UNCHANGED <<bdTimerState, networkChan, sinceNotify, timerArmed, timerLeft>>]_vars

\* after a build, with the earlier notification still in the channel, an
\* attempt in state Long has returned errBlockFrequency
C19_Witness ==
    /\ lockpc["listener"] = "try.errFreq"
    /\ bbErr = "nil"
    /\ ~bdGenFlag
    /\ bdGenWaitFlag
    /\ networkChan = NetworkChanCap
    /\ bdTimerState = bdTimerStateLong

\* C20: issueTx never blocks; a successful one leaves a signal in the wake
\* slot, posted or already there, and a full slot does not make it fail; one
\* rejected on the full queue leaves the queue and the wake slot as they were.
C20_SubmitNeverBlocks ==
    /\ []((issuepc = "idle" /\ nextTx <= MaxAtomicTx) => ENABLED issueTx)
    /\ [](issuepc = "wake" => ENABLED issueTxWake)
    /\ [][/\ nextTx' # nextTx =>
              IF Len(pendingAtomicTxs) < pendingAtomicTxsCap
              THEN /\ pendingAtomicTxs' = Append(pendingAtomicTxs, nextTx)
                   /\ issuepc' = "wake"
              ELSE /\ issueErr' = "errTooManyAtomicTx"
                   /\ issuepc' = "idle"
                   /\ UNCHANGED <<pendingAtomicTxs, atomicTxSubmitChan>>
          /\ (issuepc = "wake" /\ issuepc' = "idle") =>
              /\ issueErr' = "nil"
              /\ atomicTxSubmitChan' = 1
              /\ UNCHANGED pendingAtomicTxs
          /\ issueErr' = "nil" => issuepc' = "idle"]_vars

\* the first submission filled the queue and posted the signal; the second
\* was rejected and left both alone
C20_Witness ==
    /\ issueErr = "errTooManyAtomicTx"
    /\ nextTx = 3
    /\ Len(pendingAtomicTxs) = pendingAtomicTxsCap
    /\ pendingAtomicTxs[pendingAtomicTxsCap] = 1
    /\ atomicTxSubmitChan = 1

\* ---- claims on replay, failed builds and the locks -------------------------
\* the transactions whose serialization by finalize-and-assemble is extdata
SerializedTxs(extdata) ==
    {t \in 1..MaxAtomicTx : extdata = Marshal(codecVersion, t)}

\* C21: the extra-state-change callback applies the transfer of exactly the
\* transaction serialized into the block's extra-data, or returns that
\* transfer's error; it applies nothing and returns nil when the extra-data
\* is no serialized transaction; and a locally built block replayed on the
\* state it was assembled on gets the transfer the proposer applied.
C21_ReplayAppliesEmbeddedTx ==
    replay.err # "none" =>
        /\ \A t \in SerializedTxs(replay.extdata) :
              \/ replay.err = "nil" /\ replay.applied = <<t>>
              \/ replay.err = "transferErr" /\ replay.applied = <<>>
        /\ SerializedTxs(replay.extdata) = {} =>
              replay.err = "nil" /\ replay.applied = <<>>
        /\ (replay.hash > 0 /\ replay.hash = curBlock.hash
                /\ replay.funds = curBlock.parent) =>
              /\ replay.err = "nil"
              /\ replay.applied = curBlock.extra

\* the finalize callback runs
FinalizeStep == minerpc = "finalize" /\ minerpc' # "finalize"

\* buildBlock returns errCreateBlock
FailedBuildReturn == bbpc = "recv" /\ bbpc' = "idle" /\ bbErr' = "errCreateBlock"

\* C22: the finalize callback takes the head of the queue whether or not the
\* attempt then fails; the failure (in finalize or at verification) and
\* buildBlock's error return put nothing back, so the queue stays one shorter;
\* and no later block carries a transaction that was dequeued before.
C22_FailedBuildDropsTx ==
    [][/\ (FinalizeStep /\ Len(pendingAtomicTxs) > 0) =>
            /\ pendingAtomicTxs' = Tail(pendingAtomicTxs)
            /\ consumed' = Append(consumed, Head(pendingAtomicTxs))
       /\ (minerpc' = "sendNil" /\ minerpc = "seal") => UNCHANGED pendingAtomicTxs
       /\ FailedBuildReturn => UNCHANGED pendingAtomicTxs
       /\ Len(pendingAtomicTxs') > Len(pendingAtomicTxs) =>
            /\ nextTx' = nextTx + 1
            /\ pendingAtomicTxs' = Append(pendingAtomicTxs, nextTx)
       /\ Range(pendingAtomicTxs') \cap Range(consumed') = {}
       /\ (curBlock' # curBlock /\ curBlock'.extra # <<>>) =>
            curBlock'.extra[1] \notin Range(consumed)]_vars

\* the only attempt so far dequeued transaction 1 and failed; the queue holds
\* transaction 2 alone
C22_Witness ==
    /\ nextHash = 2
    /\ bbpc = "idle"
    /\ bbErr = "errCreateBlock"
    /\ consumed = <<1>>
    /\ pendingAtomicTxs = <<2>>

\* C23: with buildBlock calls issued one at a time, whenever the expected
\* head is set the slot of vm.txPoolStabilizedOk is empty, so the listener's
\* send under txPoolStabilizedLock never blocks, and the channel never holds
\* more than one signal.
C23_PostNeverBlocks ==
    /\ txPoolStabilizedHead # 0 => txPoolStabilizedOk = <<>>
    /\ stabpc # "send"
    /\ Len(txPoolStabilizedOk) <= 1

\* the listener has posted the signal for the second block and cleared the
\* head while the builder waits
C23_Witness ==
    /\ bbpc = "wait"
    /\ bbBlock = 2
    /\ txPoolStabilizedOk = <<[event |-> 2, head |-> 2]>>
    /\ txPoolStabilizedHead = 0

\* in state Min or Max a timeout is set or the callback is about to run
TimerPending ==
    bdTimerState \in {bdTimerStateMin, bdTimerStateMax} =>
        (timerArmed \/ cbpc = "dispatched")

\* C24: in state Min or Max the block-delay timer has a timeout set or its
\* callback is about to run, whatever the interleaving of buildBlock's reset
\* with the callback; so a state other than Long leads to Long unless another
\* build resets the scheduler first.
C24_TimerPendingInMinMax ==
    /\ []TimerPending
    /\ (bdTimerState # bdTimerStateLong) ~>
           (bdTimerState = bdTimerStateLong \/ bbpc = "reset")

\* buildBlock has reset the scheduler while the callback of the earlier
\* timeout was dispatched and had not taken bdlock yet
C24_Witness ==
    /\ bdTimerState = bdTimerStateMin
    /\ cbpc = "dispatched"
    /\ timerArmed
    /\ timerLeft = minBlockTime
    /\ bbpc = "wait"

\* C25: vm.genlock is held only by the thread that holds vm.bdlock; a thread
\* about to call tryBlockGen holds neither (the timer callback has released
\* bdlock); and, the pending-size query returning, every thread that holds
\* bdlock releases it.
C25_LocksAreReleased ==
    /\ [](genlock # "free" => bdlock = genlock)
    /\ [](\A t \in LockThreads : lockpc[t] = "try.lock" => (bdlock # t /\ genlock # t))
    /\ (bdlock # "free") ~> (bdlock = "free")

\* the timer's handler, its callback section left, is inside tryBlockGen with
\* both locks and has sent the notification, while the listener and
\* buildBlock's reset wait for bdlock
C25_Witness ==
    /\ bdlock = "timer"
    /\ genlock = "timer"
    /\ lockpc["timer"] = "try.unlockGen"
    /\ lockpc["listener"] = "try.lock"
    /\ cbpc = "retry"
    /\ bdGenFlag
    /\ bbpc = "reset"
    /\ lockpc["builder"] = "idle"

====
